---- MODULE Spec2Model ----
(***************************************************************************)
(* Model of ImageResolutionFixer (src/image_resolution_fixer.py): the      *)
(* rounding of the source size to a multiple, the four fit strategies and  *)
(* the batch loop of resize_image.                                         *)
(*                                                                         *)
(* Python's floats are IEEE-754 binary64.  The strategies compute           *)
(*     scale = target / orig ;  new = int(orig * scale)                    *)
(* in floats, and the result depends on the rounding of both operations,   *)
(* so a float is modelled exactly.  A non-negative binary64 value is the   *)
(* record [int |-> n, frac |-> <<l1, .., l5>>]: the number                 *)
(*     n + l1/2^16 + l2/2^32 + l3/2^48 + l4/2^64 + l5/2^80                 *)
(* (TLC's integers are 32 bits wide, so the 53-bit significand is kept in  *)
(* 16-bit limbs).  Every operation computes the exact result and rounds it *)
(* to 53 significant bits, to nearest, ties to even, as the hardware does. *)
(* The sizes of the model keep every value in [2^-15, 2^31) or 0, where    *)
(* binary64 has neither overflow nor subnormals.                           *)
(***************************************************************************)
EXTENDS Integers, Sequences, FiniteSets, TLC

\* Significant bits of a binary64 float: the 52 stored bits and the hidden one.
Precision == 52 + 1

\* Bits of one limb of the fraction, the limb's base, and the number of limbs.
LimbBits == 4 * 4
LimbBase == 2 ^ LimbBits
Limbs == 1 + 4

ZeroFrac == [j \in 1..Limbs |-> 0]

RECURSIVE BitLen(_)
\* Number of bits of the natural number n (0 for 0).
BitLen(n) == IF n = 0 THEN 0 ELSE 1 + BitLen(n \div 2)

RECURSIVE DivLimbs(_, _, _)
\* The first k limbs after the binary point of r / b, for 0 <= r < b.
DivLimbs(r, b, k) ==
    IF k = 0 THEN <<>>
    ELSE <<(r * LimbBase) \div b>> \o DivLimbs((r * LimbBase) % b, b, k - 1)

RECURSIVE DivRem(_, _, _)
\* The remainder of the long division r / b after k limbs.
DivRem(r, b, k) == IF k = 0 THEN r ELSE DivRem((r * LimbBase) % b, b, k - 1)

RECURSIVE LeadingZeros(_, _)
\* Number of 0 bits before the first 1 bit of the fraction, from limb j on.
LeadingZeros(frac, j) ==
    IF j > Limbs THEN 0
    ELSE IF frac[j] = 0 THEN LimbBits + LeadingZeros(frac, j + 1)
    ELSE LimbBits - BitLen(frac[j])

\* Bit i (1 is the first after the binary point) of the fraction.
FracBit(frac, i) ==
    LET j   == (i - 1) \div LimbBits + 1
        pos == i - LimbBits * (j - 1)
    IN  (frac[j] \div (2 ^ (LimbBits - pos))) % 2

\* TRUE when some bit of the fraction after bit i is 1.
FracSticky(frac, i) ==
    LET j   == (i - 1) \div LimbBits + 1
        pos == i - LimbBits * (j - 1)
    IN  \/ frac[j] % (2 ^ (LimbBits - pos)) # 0
        \/ \E l \in (j + 1)..Limbs : frac[l] # 0

\* The fraction cut after bit k: the later bits cleared.
FracCut(frac, k) ==
    LET j   == (k - 1) \div LimbBits + 1
        pos == k - LimbBits * (j - 1)
        low == frac[j] % (2 ^ (LimbBits - pos))
    IN  [l \in 1..Limbs |->
            IF l < j THEN frac[l] ELSE IF l = j THEN frac[j] - low ELSE 0]

RECURSIVE AddLimb(_, _, _, _)
\* ip + frac + add, where add counts units of limb j: the carries go up
\* through the limbs into the integer part.
AddLimb(ip, frac, j, add) ==
    IF add = 0 THEN [int |-> ip, frac |-> frac]
    ELSE IF j = 0 THEN [int |-> ip + add, frac |-> frac]
    ELSE LET v == frac[j] + add
         IN  AddLimb(ip, [frac EXCEPT ![j] = v % LimbBase], j - 1,
                     v \div LimbBase)

\* Number of bits after the binary point that binary64 keeps for ip + frac.
KeptBits(ip, frac) ==
    IF ip > 0 THEN Precision - BitLen(ip)
    ELSE LeadingZeros(frac, 1) + Precision

\* ip + frac (+ a nonzero part below the last limb when sticky) rounded to
\* binary64: to nearest, ties to even.
RoundNearestEven(ip, frac, sticky) ==
    IF ip = 0 /\ frac = ZeroFrac THEN [int |-> 0, frac |-> ZeroFrac]
    ELSE LET k    == KeptBits(ip, frac)
             j    == (k - 1) \div LimbBits + 1
             pos  == k - LimbBits * (j - 1)
             half == FracBit(frac, k + 1) = 1
             more == sticky \/ FracSticky(frac, k + 1)
             odd  == FracBit(frac, k) = 1
             kept == FracCut(frac, k)
         IN  IF half /\ (more \/ odd)
             THEN AddLimb(ip, kept, j, 2 ^ (LimbBits - pos))
             ELSE [int |-> ip, frac |-> kept]

\* The float a / b of Python for integers a >= 0, b > 0 (the true division
\* of two ints is correctly rounded).
FloatDiv(a, b) ==
    RoundNearestEven(a \div b, DivLimbs(a % b, b, Limbs),
                     DivRem(a % b, b, Limbs) # 0)

RECURSIVE MulLimbs(_, _, _, _)
\* n * frac, from limb j down to the first, carrying: the product's
\* fraction and the carry into its integer part.
MulLimbs(n, frac, j, carry) ==
    IF j = 0 THEN [frac |-> frac, carry |-> carry]
    ELSE LET v == n * frac[j] + carry
         IN  MulLimbs(n, [frac EXCEPT ![j] = v % LimbBase], j - 1,
                      v \div LimbBase)

\* The float n * f of Python for an integer n >= 0 and a float f >= 0: the
\* exact product, rounded.
FloatMulInt(n, f) ==
    LET p == MulLimbs(n, f.frac, Limbs, 0)
    IN  RoundNearestEven(n * f.int + p.carry, p.frac, FALSE)

RECURSIVE FracLess(_, _, _)
\* The fraction a is less than the fraction b, comparing from limb j on.
FracLess(a, b, j) ==
    IF j > Limbs THEN FALSE
    ELSE IF a[j] # b[j] THEN a[j] < b[j]
    ELSE FracLess(a, b, j + 1)

\* f < g for two floats.
FloatLess(f, g) ==
    f.int < g.int \/ (f.int = g.int /\ FracLess(f.frac, g.frac, 1))

\* Python's min(f, g) of two floats.
FloatMin(f, g) == IF FloatLess(g, f) THEN g ELSE f

\* Python's max(f, g) of two floats.
FloatMax(f, g) == IF FloatLess(f, g) THEN g ELSE f

\* int(f) for a float f >= 0: truncation toward zero.
FloatToInt(f) == f.int

\* math.ceil(f) for a float f >= 0.
FloatCeil(f) == IF f.frac = ZeroFrac THEN f.int ELSE f.int + 1

\* math.floor(f) for a float f >= 0.
FloatFloor(f) == f.int

(***************************************************************************)
(* The node's option lists (INPUT_TYPES) and the inputs of the model.      *)
(***************************************************************************)

\* The fit modes the node offers.
FitModes == {"smart_fill", "letterbox", "crop", "fill"}

\* The method names the node offers.
MethodNames == {"lanczos", "bicubic", "hamming", "bilinear", "box", "nearest"}

\* The rounding multiples the node offers.
AllowedMultiples == {2, 4, 8, 14, 16, 28, 32, 64, 128, 256, 512}

\* Bounds of the model: images per batch, the long and the short side of a
\* source image, the largest multiple, and the size of the negative one.
MaxBatch == 2
MaxLong == 48
MaxShort == 4
MaxMultiple == 8
MaxNegMultiple == 2

\* The shapes of the source images: both orientations.
SourceSizes ==
    ((1..MaxLong) \X (1..MaxShort)) \cup ((1..MaxShort) \X (1..MaxLong))

\* The fit values a caller passes: the four modes and one that is none.
FitInputs == FitModes \cup {"stretch"}

\* The method values a caller passes: an offered name and one that is none.
MethodInputs == {"nearest", "gaussian"}

\* The multiples a caller passes: the offered ones up to MaxMultiple, zero
\* and a negative one.
MultipleInputs ==
    {0 - MaxNegMultiple, 0} \cup (AllowedMultiples \cap (1..MaxMultiple))

(***************************************************************************)
(* The pure functions of the class.                                        *)
(***************************************************************************)

\* get_resampling_method: the PIL filter of a method name; dict.get with
\* LANCZOS as the default.
get_resampling_method(method_name) ==
    CASE method_name = "lanczos"  -> "LANCZOS"
      [] method_name = "bicubic"  -> "BICUBIC"
      [] method_name = "hamming"  -> "HAMMING"
      [] method_name = "bilinear" -> "BILINEAR"
      [] method_name = "box"      -> "BOX"
      [] method_name = "nearest"  -> "NEAREST"
      [] OTHER                    -> "LANCZOS"

\* A variant of round_to_multiple that rounds to the nearest multiple
\* (round in place of math.ceil).
round_to_multiple_nearest(value, multiple) ==
    IF multiple > 0
    THEN ((2 * value + multiple) \div (2 * multiple)) * multiple
    ELSE (0 - FloatFloor(FloatDiv(value, 0 - multiple))) * multiple

\* A variant of round_to_multiple that always goes to the next multiple
\* (value // multiple + 1 in place of math.ceil).
round_to_multiple_next(value, multiple) ==
    IF multiple > 0
    THEN (FloatFloor(FloatDiv(value, multiple)) + 1) * multiple
    ELSE (0 - FloatFloor(FloatDiv(value, 0 - multiple))) * multiple

\* round_to_multiple: int(math.ceil(value / multiple) * multiple), for
\* value >= 0 and multiple # 0 (multiple = 0 raises ZeroDivisionError, see
\* Iterate).  value / multiple is a float; for a negative multiple it is
\* -(value / -multiple), and ceil(-x) = -floor(x).
round_to_multiple(value, multiple) ==
    IF multiple > 0
    THEN FloatCeil(FloatDiv(value, multiple)) * multiple
    ELSE (0 - FloatFloor(FloatDiv(value, 0 - multiple))) * multiple

\* calculate_target_dimensions: both sides rounded, independently.
calculate_target_dimensions(orig_width, orig_height, round_multiple) ==
    [width  |-> round_to_multiple(orig_width, round_multiple),
     height |-> round_to_multiple(orig_height, round_multiple)]

\* Image.resize raises ValueError for a size with a side below 1.
ResizeRaises(new_width, new_height) == new_width < 1 \/ new_height < 1

\* The outcome of a strategy whose resize raised.
Raised(exception) == [raised |-> exception]

\* A variant of resize_letterbox whose canvas has the scaled image's size.
resize_letterbox_tight(pil_image, target_width, target_height, resampling) ==
    LET scale == FloatMin(FloatDiv(target_width, pil_image.width),
                          FloatDiv(target_height, pil_image.height))
        new_width  == FloatToInt(FloatMulInt(pil_image.width, scale))
        new_height == FloatToInt(FloatMulInt(pil_image.height, scale))
    IN  IF new_width < 1 \/ new_height < 1 THEN [raised |-> "ValueError"]
        ELSE [raised |-> "none", mode |-> "letterbox", src |-> pil_image.src,
              resampling |-> resampling, scale |-> scale,
              new_width |-> new_width, new_height |-> new_height,
              paste_x |-> 0, paste_y |-> 0,
              width |-> new_width, height |-> new_height]

\* resize_letterbox: scale to fit inside the target, paste centred on a
\* black canvas of the target size.  The result has the canvas's size.
resize_letterbox(pil_image, target_width, target_height, resampling) ==
    LET scale == FloatMin(FloatDiv(target_width, pil_image.width),
                          FloatDiv(target_height, pil_image.height))
        new_width  == FloatToInt(FloatMulInt(pil_image.width, scale))
        new_height == FloatToInt(FloatMulInt(pil_image.height, scale))
        paste_x == (target_width - new_width) \div 2
        paste_y == (target_height - new_height) \div 2
    IN  IF ResizeRaises(new_width, new_height) THEN Raised("ValueError")
        ELSE [raised |-> "none", mode |-> "letterbox", src |-> pil_image.src,
              resampling |-> resampling, scale |-> scale,
              new_width |-> new_width, new_height |-> new_height,
              paste_x |-> paste_x, paste_y |-> paste_y,
              width |-> target_width, height |-> target_height]

\* resize_crop: scale to cover the target, crop a centred window of the
\* target size.  The result has the window's size (Image.crop fills what
\* lies outside the scaled image with black).
resize_crop(pil_image, target_width, target_height, resampling) ==
    LET scale == FloatMax(FloatDiv(target_width, pil_image.width),
                          FloatDiv(target_height, pil_image.height))
        new_width  == FloatToInt(FloatMulInt(pil_image.width, scale))
        new_height == FloatToInt(FloatMulInt(pil_image.height, scale))
        left   == (new_width - target_width) \div 2
        top    == (new_height - target_height) \div 2
        right  == left + target_width
        bottom == top + target_height
    IN  IF ResizeRaises(new_width, new_height) THEN Raised("ValueError")
        ELSE [raised |-> "none", mode |-> "crop", src |-> pil_image.src,
              resampling |-> resampling, scale |-> scale,
              new_width |-> new_width, new_height |-> new_height,
              left |-> left, top |-> top, right |-> right, bottom |-> bottom,
              width |-> right - left, height |-> bottom - top]

\* resize_fill: resize straight to the target size.
resize_fill(pil_image, target_width, target_height, resampling) ==
    IF ResizeRaises(target_width, target_height) THEN Raised("ValueError")
    ELSE [raised |-> "none", mode |-> "fill", src |-> pil_image.src,
          resampling |-> resampling,
          new_width |-> target_width, new_height |-> target_height,
          width |-> target_width, height |-> target_height]

\* A variant of resize_smart_fill that pads both sides by pad // 2, losing
\* the odd pixel.
resize_smart_fill_even(pil_image, target_width, target_height, resampling) ==
    LET scale == FloatMin(FloatDiv(target_width, pil_image.width),
                          FloatDiv(target_height, pil_image.height))
        new_width  == FloatToInt(FloatMulInt(pil_image.width, scale))
        new_height == FloatToInt(FloatMulInt(pil_image.height, scale))
        pad_w  == target_width - new_width
        pad_h  == target_height - new_height
        top    == pad_h \div 2
        bottom == pad_h \div 2
        left   == pad_w \div 2
        right  == pad_w \div 2
    IN  IF new_width < 1 \/ new_height < 1 THEN [raised |-> "ValueError"]
        ELSE [raised |-> "none", mode |-> "smart_fill", src |-> pil_image.src,
              resampling |-> resampling, scale |-> scale,
              new_width |-> new_width, new_height |-> new_height,
              top |-> top, bottom |-> bottom, left |-> left, right |-> right,
              width |-> new_width + left + right,
              height |-> new_height + top + bottom]

\* resize_smart_fill: scale to fit inside the target, then copyMakeBorder
\* adds top, bottom, left and right reflected pixels around the scaled
\* image.  The result has the scaled size plus the borders.
resize_smart_fill(pil_image, target_width, target_height, resampling) ==
    LET scale == FloatMin(FloatDiv(target_width, pil_image.width),
                          FloatDiv(target_height, pil_image.height))
        new_width  == FloatToInt(FloatMulInt(pil_image.width, scale))
        new_height == FloatToInt(FloatMulInt(pil_image.height, scale))
        pad_w  == target_width - new_width
        pad_h  == target_height - new_height
        top    == pad_h \div 2
        bottom == pad_h - top
        left   == pad_w \div 2
        right  == pad_w - left
    IN  IF ResizeRaises(new_width, new_height) THEN Raised("ValueError")
        ELSE [raised |-> "none", mode |-> "smart_fill", src |-> pil_image.src,
              resampling |-> resampling, scale |-> scale,
              new_width |-> new_width, new_height |-> new_height,
              top |-> top, bottom |-> bottom, left |-> left, right |-> right,
              width |-> new_width + left + right,
              height |-> new_height + top + bottom]

\* The outcome of the if/elif chain when no branch is taken: result_image
\* keeps the value of the iteration before, and reading it raises
\* UnboundLocalError when there was none.
NoBranch(locals) ==
    IF "result_image" \in DOMAIN locals THEN locals.result_image
    ELSE Raised("UnboundLocalError")

\* A variant of ApplyFit with a final else: smart_fill as the default.
ApplyFit_default(fit_mode, locals, pil_image, target_width, target_height, resampling) ==
    CASE fit_mode = "letterbox" ->
            resize_letterbox(pil_image, target_width, target_height, resampling)
      [] fit_mode = "crop" ->
            resize_crop(pil_image, target_width, target_height, resampling)
      [] fit_mode = "fill" ->
            resize_fill(pil_image, target_width, target_height, resampling)
      [] OTHER ->
            resize_smart_fill(pil_image, target_width, target_height, resampling)

\* The if/elif chain of resize_image: the strategy of the fit value.
ApplyFit(fit_mode, locals, pil_image, target_width, target_height, resampling) ==
    CASE fit_mode = "letterbox" ->
            resize_letterbox(pil_image, target_width, target_height, resampling)
      [] fit_mode = "crop" ->
            resize_crop(pil_image, target_width, target_height, resampling)
      [] fit_mode = "fill" ->
            resize_fill(pil_image, target_width, target_height, resampling)
      [] fit_mode = "smart_fill" ->
            resize_smart_fill(pil_image, target_width, target_height, resampling)
      [] OTHER -> NoBranch(locals)

\* image[i] as a PIL image: the i-th image of the batch; every image of a
\* tensor has the tensor's width and height.
BatchImage(tensor, index) ==
    [src |-> index, width |-> tensor.width, height |-> tensor.height]

\* A variant of AppendResult that puts the result at the front of the list.
AppendResult_front(list, result_image) == <<result_image>> \o list

\* results.append(result_tensor): the result goes to the end of the list.
AppendResult(list, result_image) == Append(list, result_image)

(***************************************************************************)
(* resize_image: the state of one call.                                    *)
(***************************************************************************)

VARIABLES
    image,              \* the input tensor's shape: batch, width, height
    fit,                \* the fit argument
    method,             \* the method argument
    round_to_multiple_, \* the round_to_multiple argument
    i,                  \* the loop index
    results,            \* the list of result images
    loc,                \* the loop's local names that are bound, with values
    pc,                 \* "loop", "returned" or "raised"
    ret,                \* the returned tuple, <<>> before the return
    error               \* the exception raised, "none" without one

vars == <<image, fit, method, round_to_multiple_, i, results, loc, pc, ret,
          error>>

\* No local name is bound (the empty record).
NoLocals == [n \in {} |-> 0]

\* The entry of resize_image with some arguments.
Init ==
    /\ image \in {[batch |-> b, width |-> s[1], height |-> s[2]] :
                     b \in 0..MaxBatch, s \in SourceSizes}
    /\ fit \in FitInputs
    /\ method \in MethodInputs
    /\ round_to_multiple_ \in MultipleInputs
    /\ i = 0
    /\ results = <<>>
    /\ loc = NoLocals
    /\ pc = "loop"
    /\ ret = <<>>
    /\ error = "none"

\* The local names after line 169: target_width and target_height bound
\* to the target, the names bound before (result_image) kept.
BindTarget(locals, target) ==
    [n \in DOMAIN locals \cup {"target_width", "target_height"} |->
        IF n = "target_width" THEN target.width
        ELSE IF n = "target_height" THEN target.height
        ELSE locals[n]]

\* The local names after the if/elif chain: result_image bound to the
\* strategy's result.
BindResult(locals, result_image) ==
    [n \in DOMAIN locals \cup {"result_image"} |->
        IF n = "result_image" THEN result_image ELSE locals[n]]

\* The exception leaves the call, the local names being bound as in
\* locals: nothing is returned.
Raise(exception, locals) ==
    /\ pc' = "raised"
    /\ error' = exception
    /\ loc' = locals
    /\ UNCHANGED <<i, results, ret>>

\* One iteration of the for loop over the batch.
Iterate ==
    /\ pc = "loop"
    /\ i < image.batch
    /\ IF round_to_multiple_ = 0 THEN Raise("ZeroDivisionError", loc)
       ELSE LET pil_image == BatchImage(image, i)
                target == calculate_target_dimensions(
                              pil_image.width, pil_image.height,
                              round_to_multiple_)
                resampling == get_resampling_method(method)
                result_image == ApplyFit(fit, loc, pil_image, target.width,
                                         target.height, resampling)
            IN  IF result_image.raised # "none"
                THEN Raise(result_image.raised, BindTarget(loc, target))
                ELSE /\ results' = AppendResult(results, result_image)
                     /\ loc' = BindResult(BindTarget(loc, target),
                                          result_image)
                     /\ i' = i + 1
                     /\ UNCHANGED <<pc, ret, error>>
    /\ UNCHANGED <<image, fit, method, round_to_multiple_>>

\* After the loop: torch.stack raises RuntimeError for an empty list;
\* otherwise the batch and the target size of the last iteration return.
Return ==
    /\ pc = "loop"
    /\ i >= image.batch
    /\ IF results = <<>> THEN Raise("RuntimeError", loc)
       ELSE /\ ret' = [image |-> results, width |-> loc.target_width,
                       height |-> loc.target_height]
            /\ pc' = "returned"
            /\ UNCHANGED <<i, results, loc, error>>
    /\ UNCHANGED <<image, fit, method, round_to_multiple_>>

Next == Iterate \/ Return

Spec == Init /\ [][Next]_vars

(***************************************************************************)
(* The claims.                                                             *)
(***************************************************************************)

\* The target size calculate_target_dimensions gives for the batch's images.
Target ==
    calculate_target_dimensions(image.width, image.height, round_to_multiple_)

\* The float 1.0.
One == [int |-> 1, frac |-> ZeroFrac]

\* The results so far, as a set of indices.
Done == 1..Len(results)

\* TRUE when the iteration has bound the loop's local names.
Bound == "target_width" \in DOMAIN loc

\* C1: for a positive multiple m the target width and height are multiples
\* of m, are not below the source width and height, and are less than m
\* above them: the smallest multiple of m that is >= the source dimension.
C1_RoundUpToSmallestMultiple ==
    (round_to_multiple_ > 0 /\ Bound) =>
        /\ loc.target_width % round_to_multiple_ = 0
        /\ loc.target_width >= image.width
        /\ loc.target_width - round_to_multiple_ < image.width
        /\ loc.target_height % round_to_multiple_ = 0
        /\ loc.target_height >= image.height
        /\ loc.target_height - round_to_multiple_ < image.height

\* C1's case: a height that is no multiple of 4 is rounded up to the next
\* one, a width that is one stays.
C1_Witness ==
    /\ round_to_multiple_ = 4 /\ Bound
    /\ image.width = 4 /\ image.height = 41
    /\ loc.target_width = 4 /\ loc.target_height = 44

\* C2: for an offered multiple, every image a strategy produces has exactly
\* the target width and height; in smart_fill the four paddings are >= 0
\* and, with the scaled size, add up to the target size.
C2_OutputHasTargetSize ==
    (round_to_multiple_ \in AllowedMultiples /\ results # <<>>) =>
        LET target == Target
        IN  \A k \in Done :
                /\ results[k].width = target.width
                /\ results[k].height = target.height
                /\ results[k].mode = "smart_fill" =>
                      /\ results[k].top >= 0 /\ results[k].bottom >= 0
                      /\ results[k].left >= 0 /\ results[k].right >= 0
                      /\ results[k].new_width + results[k].left
                            + results[k].right = target.width
                      /\ results[k].new_height + results[k].top
                            + results[k].bottom = target.height

\* C2's case: a returned smart_fill batch whose padding is odd on both axes
\* (the odd pixel is on the right and at the bottom).
C2_Witness ==
    /\ pc = "returned" /\ fit = "smart_fill"
    /\ round_to_multiple_ \in AllowedMultiples
    /\ ret.image[1].left < ret.image[1].right
    /\ ret.image[1].top < ret.image[1].bottom
    /\ ret.image[1].width > image.width

\* C3: in crop mode, for a positive multiple, the crop window lies inside
\* the scaled image: the scaled size covers the target size, the origin is
\* >= (0, 0) and the window ends within the scaled image.
C3_CropWindowInsideScaledImage ==
    (round_to_multiple_ > 0 /\ fit = "crop" /\ results # <<>>) =>
        LET target == Target
        IN  \A k \in Done :
                /\ results[k].mode = "crop"
                /\ results[k].new_width >= target.width
                /\ results[k].new_height >= target.height
                /\ results[k].left >= 0 /\ results[k].top >= 0
                /\ results[k].right <= results[k].new_width
                /\ results[k].bottom <= results[k].new_height

\* C4: a call with a recognized fit and an offered multiple on a non-empty
\* batch does not raise, and a returned batch has as many images as the
\* input, the image at each index being the transform of the input image at
\* that index.
C4_BatchSizeAndOrder ==
    /\ (fit \in FitModes /\ round_to_multiple_ \in AllowedMultiples
            /\ image.batch > 0) => pc # "raised"
    /\ pc = "returned" =>
          LET target == Target
          IN  /\ Len(ret.image) = image.batch
              /\ \A k \in 1..Len(ret.image) :
                    /\ ret.image[k].src = k - 1
                    /\ ret.image[k] =
                           ApplyFit(fit, NoLocals, BatchImage(image, k - 1),
                                    target.width, target.height,
                                    get_resampling_method(method))

\* C4's case: a crop call on a batch of two has returned two images.
C4_Witness ==
    /\ pc = "returned" /\ fit = "crop" /\ image.batch = 2
    /\ Len(ret.image) = 2
    /\ ret.image[2].src = 1

\* C5: the returned width and height are the target size computed for the
\* last image processed, and every image of the returned batch has exactly
\* that width and height.
C5_ReturnedSizeUniform ==
    pc = "returned" =>
        /\ LET target == Target
           IN  ret.width = target.width /\ ret.height = target.height
        /\ ret.width = loc.target_width /\ ret.height = loc.target_height
        /\ ret.image[Len(ret.image)].src = image.batch - 1
        /\ \A k \in 1..Len(ret.image) :
              ret.image[k].width = ret.width /\ ret.image[k].height = ret.height

\* C5's case: a letterbox call on a batch of two has returned, the target
\* being larger than the source on both axes.
C5_Witness ==
    /\ pc = "returned" /\ fit = "letterbox" /\ image.batch = 2
    /\ ret.width > image.width /\ ret.height > image.height
    /\ ret.image[1].width = ret.width /\ ret.image[2].height = ret.height

\* C6: every result is the product of the one strategy the fit value names,
\* one result per image processed; with a fit value that names none the
\* call produces no result and never returns.
C6_ExactlyOneStrategyNoFallback ==
    /\ Len(results) = i
    /\ \A k \in Done : results[k].mode = fit
    /\ fit \notin FitModes =>
          results = <<>> /\ ret = <<>> /\ pc # "returned"

\* C6's case: a call with an unrecognized fit on a batch of two has ended
\* in the error of reading the unbound result_image.
C6_Witness ==
    /\ fit \notin FitModes /\ image.batch = 2
    /\ pc = "raised" /\ error = "UnboundLocalError"
    /\ results = <<>>

\* C7: with a method value that is none of the six names the call is an
\* error: it processes no image and does not return, so no output is
\* produced with a default filter.
C7_UnknownMethodRejected ==
    method \notin MethodNames => (results = <<>> /\ pc # "returned")

\* C8: when both source dimensions are multiples of the (positive) rounding
\* multiple, every strategy is the identity on positions: the output and
\* the scaled image have the source size, the scale is 1.0, the letterbox
\* offset and the crop origin are (0, 0), the crop extent is the source and
\* the four smart_fill paddings are 0.
C8_IdentityAtTargetSize ==
    (round_to_multiple_ > 0 /\ image.width % round_to_multiple_ = 0
        /\ image.height % round_to_multiple_ = 0) =>
        \A k \in Done :
            LET r == results[k]
            IN  /\ r.width = image.width /\ r.height = image.height
                /\ r.new_width = image.width /\ r.new_height = image.height
                /\ r.mode # "fill" => r.scale = One
                /\ r.mode = "letterbox" => (r.paste_x = 0 /\ r.paste_y = 0)
                /\ r.mode = "crop" =>
                      /\ r.left = 0 /\ r.top = 0
                      /\ r.right = image.width /\ r.bottom = image.height
                /\ r.mode = "smart_fill" =>
                      /\ r.top = 0 /\ r.bottom = 0
                      /\ r.left = 0 /\ r.right = 0

\* C8's case: a 48 x 4 image, already a multiple of 4 on both axes, has
\* gone through smart_fill.
C8_Witness ==
    /\ round_to_multiple_ = 4 /\ image.width = 48 /\ image.height = 4
    /\ fit = "smart_fill" /\ pc = "returned"
    /\ ret.image[1].new_width = 48 /\ ret.image[1].bottom = 0

\* n / d rounded to the nearest integer, ties to the even one (Python's
\* round), for n >= 0 and d > 0.
RoundHalfEven(n, d) ==
    LET q == n \div d
        r == n % d
    IN  IF 2 * r < d THEN q
        ELSE IF 2 * r > d THEN q + 1
        ELSE IF q % 2 = 0 THEN q ELSE q + 1

\* round(src * s) for the scale s of a mode: the smaller of target_w/src_w
\* and target_h/src_h for letterbox and smart_fill, the larger for crop.
RoundedScaledSize(mode) ==
    LET target == Target
        widthRatioSmaller ==
            target.width * image.height <= target.height * image.width
        useWidth == IF mode = "crop" THEN ~widthRatioSmaller
                    ELSE widthRatioSmaller
        num == IF useWidth THEN target.width ELSE target.height
        den == IF useWidth THEN image.width ELSE image.height
    IN  [width  |-> RoundHalfEven(image.width * num, den),
         height |-> RoundHalfEven(image.height * num, den)]

\* C9: in letterbox, smart_fill and crop, for a positive multiple, the
\* scaled image has the size (round(src_w*s), round(src_h*s)).
C9_ScaledSizeIsRounded ==
    (round_to_multiple_ > 0 /\ fit \in {"letterbox", "smart_fill", "crop"}
        /\ results # <<>>) =>
        LET rounded == RoundedScaledSize(fit)
        IN  \A k \in Done :
                /\ results[k].new_width = rounded.width
                /\ results[k].new_height = rounded.height

\* C10: with a multiple <= 0 the call computes no target size, produces no
\* image and does not return.
C10_NonPositiveMultipleRejected ==
    round_to_multiple_ <= 0 =>
        (~Bound /\ results = <<>> /\ pc # "returned")

====
